---- MODULE Spec2Model ----
(***************************************************************************)
(* Model of the genius-guru backend (backend/ai_engine.py,                 *)
(* backend/main.py) and of the interactive quiz document it renders.       *)
(*                                                                         *)
(* Python values are tagged records [t |-> tag, v |-> payload]:            *)
(*   "null" (None), "num" (int), "str" (a TLA+ string, which TLC treats as *)
(*   a sequence of characters), "list" (a sequence of values) and "obj"    *)
(*   (a dict: the sequence of its <<key, value>> pairs in insertion order).*)
(* A raised exception is a record [ok |-> FALSE, exc |-> name]; a returned *)
(* value is [ok |-> TRUE, val |-> value].                                  *)
(***************************************************************************)
EXTENDS Integers, Sequences, FiniteSets, TLC

(***************************************************************************)
(* Bounds of the model and constants of the program.                       *)
(***************************************************************************)
MaxLen == 3          \* longest JSON array the model returns
MaxExtra == 2        \* question counts are tried up to MinQuestions + MaxExtra
MaxClicks == 3       \* option selections made in one rendered document
MaxShown == 2        \* questions in a document the browser is given

MinQuestions == 1    \* QuizRequest.num_questions ge=1
MaxQuestions == 10   \* QuizRequest.num_questions le=10
DefaultQuestions == 5
NumOptions == 4      \* len(question["options"]) != 4

(***************************************************************************)
(* Python values.                                                          *)
(***************************************************************************)
Null == [t |-> "null", v |-> "None"]
Num(n) == [t |-> "num", v |-> n]
Str(s) == [t |-> "str", v |-> s]
List(items) == [t |-> "list", v |-> items]
Obj(pairs) == [t |-> "obj", v |-> pairs]

Return(x) == [ok |-> TRUE, val |-> x]
Raise(e) == [ok |-> FALSE, exc |-> e]

Min(a, b) == IF a < b THEN a ELSE b
Max(a, b) == IF a > b THEN a ELSE b

\* key in dict
HasKey(pairs, k) == \E i \in 1..Len(pairs) : pairs[i][1] = k

\* dict[key], for a key the dict has
Get(pairs, k) == pairs[CHOOSE i \in 1..Len(pairs) : pairs[i][1] = k][2]

\* dict[key] = value
Put(pairs, k, val) ==
    IF HasKey(pairs, k)
    THEN [i \in 1..Len(pairs) |-> IF pairs[i][1] = k THEN <<k, val>> ELSE pairs[i]]
    ELSE Append(pairs, <<k, val>>)

\* sub in s, for two Python strings
IsSubstring(sub, s) ==
    \E i \in 1..(Len(s) - Len(sub) + 1) : SubSeq(s, i, i + Len(sub) - 1) = sub

\* str(x), the conversion an f-string applies to a scalar
PyStr(x) ==
    CASE x.t = "str" -> x.v
      [] x.t = "num" -> ToString(x.v)
      [] x.t = "null" -> "None"

\* len(x) of a list, str or dict
PyLen(x) == Len(x.v)

\* the values a for loop over x visits: the items of a list, the characters
\* of a str, the keys of a dict
PyIter(x) ==
    CASE x.t = "list" -> x.v
      [] x.t = "str" -> [i \in 1..Len(x.v) |-> Str(SubSeq(x.v, i, i))]
      [] x.t = "obj" -> [i \in 1..Len(x.v) |-> Str(x.v[i][1])]

\* x in c, for a str x and a list, str or dict c
PyIn(x, c) ==
    CASE c.t = "list" -> \E i \in 1..Len(c.v) : c.v[i] = x
      [] c.t = "str" -> IsSubstring(x.v, c.v)
      [] c.t = "obj" -> HasKey(c.v, x.v)

\* s[:n] of a sequence or string, n of either sign
PySlice(s, n) ==
    IF n >= 0 THEN SubSeq(s, 1, Min(n, Len(s)))
    ELSE SubSeq(s, 1, Max(Len(s) + n, 0))

(***************************************************************************)
(* ai_engine.py: the quiz pipeline.                                        *)
(***************************************************************************)
RequiredKeys == <<"question", "options", "correct_answer">>

FallbackOptions == <<Str("Option A"), Str("Option B"), Str("Option C"), Str("Option D")>>

FallbackQuestion(subject, i) ==
    Obj(<< <<"question", Str("Sample " \o subject \o " question " \o ToString(i))>>,
           <<"options", List(FallbackOptions)>>,
           <<"correct_answer", Str("Option A")>>,
           <<"explanation", Str("This is a fallback explanation.")>> >>)

\* _create_fallback_quiz numbering its questions from 0
_create_fallback_quiz_FromZero(subject, num_questions) ==
    List(IF num_questions <= 0 THEN <<>>
         ELSE [i \in 1..num_questions |-> FallbackQuestion(subject, i - 1)])

_create_fallback_quiz(subject, num_questions) ==
    List(IF num_questions <= 0 THEN <<>>
         ELSE [i \in 1..num_questions |-> FallbackQuestion(subject, i)])

\* ValidateQuestion without the test len(question["options"]) != 4
ValidateQuestion_AnyCount(question) ==
    IF question.t \in {"num", "null"}
    THEN "TypeError"
    ELSE IF ~ \A k \in 1..Len(RequiredKeys) : PyIn(Str(RequiredKeys[k]), question)
    THEN "ValueError"
    ELSE IF question.t # "obj"
    THEN "TypeError"
    ELSE LET options == Get(question.v, "options")
         IN  IF options.t # "list"
             THEN "ValueError"
             ELSE IF ~ PyIn(Get(question.v, "correct_answer"), options)
             THEN "ValueError"
             ELSE "ok"

\* The body of the loop of _validate_quiz_data for one item: "ok", or the
\* exception the item raises.
ValidateQuestion(question) ==
    IF question.t \in {"num", "null"}
    THEN "TypeError"             \* key in question: argument is not iterable
    ELSE IF ~ \A k \in 1..Len(RequiredKeys) : PyIn(Str(RequiredKeys[k]), question)
    THEN "ValueError"
    ELSE IF question.t # "obj"
    THEN "TypeError"             \* question["options"] on a str or a list
    ELSE LET options == Get(question.v, "options")
         IN  IF options.t # "list" \/ Len(options.v) # NumOptions
             THEN "ValueError"
             ELSE IF ~ PyIn(Get(question.v, "correct_answer"), options)
             THEN "ValueError"
             ELSE "ok"

\* "ok", or the first exception the loop raises
_validate_quiz_data(quiz_data) ==
    IF quiz_data.t \in {"num", "null"}
    THEN "TypeError"             \* for question in quiz_data: not iterable
    ELSE LET items == PyIter(quiz_data)
             bad == {i \in 1..Len(items) : ValidateQuestion(items[i]) # "ok"}
         IN  IF bad = {} THEN "ok"
             ELSE ValidateQuestion(items[CHOOSE i \in bad : \A j \in bad : i <= j])

\* json.loads: the capability's text is modelled by what json.loads makes of
\* it, a JSONDecodeError or the decoded value.
json_loads(response_content) ==
    IF response_content.json THEN Return(response_content.value)
    ELSE Raise("JSONDecodeError")

\* Backfill without the test "explanation" not in question
Backfill_Always(question) ==
    IF question.t = "obj"
    THEN Obj(Put(question.v, "explanation",
                 Str("The correct answer is "
                     \o PyStr(Get(question.v, "correct_answer")) \o ".")))
    ELSE question

\* question["explanation"] = f"The correct answer is {...}." when absent
Backfill(question) ==
    IF question.t = "obj" /\ ~ HasKey(question.v, "explanation")
    THEN Obj(Put(question.v, "explanation",
                 Str("The correct answer is "
                     \o PyStr(Get(question.v, "correct_answer")) \o ".")))
    ELSE question

Truncate(quiz_data, num_questions) ==
    IF PyLen(quiz_data) > num_questions
    THEN [quiz_data EXCEPT !.v = PySlice(quiz_data.v, num_questions)]
    ELSE quiz_data

_parse_quiz_response(response_content, subject, num_questions) ==
    LET parsed == json_loads(response_content)
    IN  IF ~ parsed.ok
        THEN Return(_create_fallback_quiz(subject, num_questions))
        ELSE LET checked == _validate_quiz_data(parsed.val)
             IN  IF checked = "ValueError"
                 THEN Return(_create_fallback_quiz(subject, num_questions))
                 ELSE IF checked # "ok"
                 THEN Raise(checked)
                 ELSE IF parsed.val.t = "obj" /\ PyLen(parsed.val) > num_questions
                 THEN Raise("TypeError")     \* a dict cannot be sliced
                 ELSE LET quiz_data == Truncate(parsed.val, num_questions)
                      IN  Return(IF quiz_data.t = "list"
                                 THEN List([i \in 1..Len(quiz_data.v) |->
                                               Backfill(quiz_data.v[i])])
                                 ELSE quiz_data)

\* One question of the rendered document: the heading, one clickable element
\* per option carrying the arguments of its onclick handler, and the answer
\* panel with its element id.
QuizCard(question, i) ==
    [heading |-> "Q" \o ToString(i) \o ": " \o PyStr(Get(question.v, "question")),
     options |-> LET options == Get(question.v, "options").v
                 IN  [j \in 1..Len(options) |->
                        [label |-> PyStr(options[j]),
                         is_correct |-> IF options[j] = Get(question.v, "correct_answer")
                                        THEN "true" ELSE "false",
                         questionNum |-> i]],
     answer_id |-> "answer-" \o ToString(i),
     correct_answer |-> PyStr(Get(question.v, "correct_answer")),
     explanation |-> PyStr(Get(question.v, "explanation"))]

\* The markup as the document a browser builds from it
_format_quiz_with_reveal(quiz_data) ==
    LET items == PyIter(quiz_data)
    IN  [i \in 1..Len(items) |-> QuizCard(items[i], i)]

_create_quiz_prompt(subject, level, num_questions) ==
    [kind |-> "quiz", subject |-> subject, level |-> level,
     num_questions |-> num_questions]

\* generate_quiz_data: response.content of whatever the capability returned
generate_quiz_data(subject, level, num_questions, llm) ==
    IF llm.shape = "raise" THEN Raise(llm.exc)
    ELSE IF llm.shape # "message" THEN Raise("AttributeError")
    ELSE _parse_quiz_response(llm.content, subject, num_questions)

\* generate_quiz, given what get_llm() and the one call of the capability did
generate_quiz(subject, level, num_questions, reveal_answer, llm) ==
    LET data == generate_quiz_data(subject, level, num_questions, llm)
    IN  IF ~ data.ok
        THEN [ok |-> FALSE, exc |-> "Exception", cause |-> data.exc]
        ELSE IF reveal_answer
        THEN Return([quiz_data |-> data.val,
                     formatted_quiz |-> _format_quiz_with_reveal(data.val)])
        ELSE Return([quiz_data |-> data.val])

(***************************************************************************)
(* ai_engine.py: the tutoring generator.                                   *)
(***************************************************************************)
VisualSuffix == "\n\n<U+1F4DD> *Note: Visualize these concepts as you read for better retention.*"
HandsOnSuffix == "\n\n<U+1F6E0> *Tip: Try working through the examples yourself to reinforce your learning.*"

format_tutoring_response(content, learning_style) ==
    IF learning_style = "Visual" THEN content \o VisualSuffix
    ELSE IF learning_style = "Hands-on" THEN content \o HandsOnSuffix
    ELSE content

_create_tutoring_prompt(subject, level, question, learning_style, background, language) ==
    [kind |-> "tutor", subject |-> subject, level |-> level, question |-> question,
     learning_style |-> learning_style, background |-> background,
     language |-> language]

\* The content the chain of hasattr tests extracts: a value, None, or the
\* IndexError of generations[0] or response[0] on an empty sequence.
ExtractContent(response) ==
    IF response.shape = "message" THEN Return(response.content)
    ELSE IF response.shape = "llmresult"
    THEN IF response.generations = <<>> \/ response.generations[1] = <<>>
         THEN Raise("IndexError")
         ELSE Return(response.generations[1][1].text)
    ELSE IF response.shape = "list"
    THEN IF response.items = <<>> THEN Raise("IndexError")
         ELSE IF response.items[1].shape = "message"
         THEN Return(response.items[1].content)
         ELSE Return(Null)
    ELSE Return(Null)

\* not content, testing for None only
Falsy_OnlyNone(content) == content.t = "null"

\* not content
Falsy(content) == content.t = "null" \/ (content.t = "str" /\ content.v = "")

generate_tutoring_response(subject, level, question, learning_style, background, language, llm) ==
    IF llm.shape = "raise"
    THEN [ok |-> FALSE, exc |-> "Exception", cause |-> llm.exc]
    ELSE LET extracted == ExtractContent(llm)
         IN  IF ~ extracted.ok
             THEN [ok |-> FALSE, exc |-> "Exception", cause |-> extracted.exc]
             ELSE IF Falsy(extracted.val)
             THEN [ok |-> FALSE, exc |-> "Exception", cause |-> "NoContent"]
             ELSE Return(format_tutoring_response(extracted.val.v, learning_style))

(***************************************************************************)
(* What the Completion Capability may answer.                              *)
(***************************************************************************)
Subjects == {"Algebra", "Physics"}
Levels == {"Beginner"}
LearningStyles == {"Visual", "Hands-on", "Text-Based"}

\* The two questions of the Algebra example, and a question whose
\* explanation the model left empty
Q1 == Obj(<< <<"question", Str("What is 2+2?")>>,
             <<"options", List(<<Str("3"), Str("4"), Str("5"), Str("6")>>)>>,
             <<"correct_answer", Str("4")>> >>)
Q2 == Obj(<< <<"question", Str("Solve x+1=2")>>,
             <<"options", List(<<Str("0"), Str("1"), Str("2"), Str("3")>>)>>,
             <<"correct_answer", Str("1")>>,
             <<"explanation", Str("Subtract 1.")>> >>)
Q3 == Obj(<< <<"question", Str("Is 7 prime?")>>,
             <<"options", List(<<Str("Yes"), Str("No"), Str("Maybe"), Str("Unknown")>>)>>,
             <<"correct_answer", Str("Yes")>>,
             <<"explanation", Str("")>> >>)
\* numbers as options, no explanation
Q4 == Obj(<< <<"question", Str("1+1?")>>,
             <<"options", List(<<Num(1), Num(2), Num(3), Num(4)>>)>>,
             <<"correct_answer", Num(2)>> >>)
\* "explanation": null
Q5 == Obj(<< <<"question", Str("2*3?")>>,
             <<"options", List(<<Str("5"), Str("6"), Str("7"), Str("8")>>)>>,
             <<"correct_answer", Str("6")>>,
             <<"explanation", Null>> >>)
NoAnswer == Obj(<< <<"question", Str("Missing answer?")>>,
                   <<"options", List(<<Str("a"), Str("b"), Str("c"), Str("d")>>)>> >>)
ThreeOptions == Obj(<< <<"question", Str("Three options?")>>,
                       <<"options", List(<<Str("a"), Str("b"), Str("c")>>)>>,
                       <<"correct_answer", Str("a")>> >>)
WrongAnswer == Obj(<< <<"question", Str("Answer not offered?")>>,
                      <<"options", List(<<Str("a"), Str("b"), Str("c"), Str("d")>>)>>,
                      <<"correct_answer", Str("e")>> >>)
OptionsNotList == Obj(<< <<"question", Str("Options as text?")>>,
                         <<"options", Str("abcd")>>,
                         <<"correct_answer", Str("a")>> >>)
AllKeysText == Str("questionoptionscorrect_answer")
AllKeysList == List(<<Str("question"), Str("options"), Str("correct_answer")>>)

\* Items found in arrays of every length up to MaxLen
CoreItems == {Q1, Q2, Q3, ThreeOptions, WrongAnswer, Num(5)}
\* Items tried alone, after one valid question and before one
RareItems == {Q4, Q5, NoAnswer, OptionsNotList, Null, Str("abc"), AllKeysText,
              AllKeysList, List(<<>>)}

Arrays ==
    UNION {[1..k -> CoreItems] : k \in 0..MaxLen}
    \cup {<<x>> : x \in RareItems} \cup {<<Q1, x>> : x \in RareItems}
    \cup {<<x, Q1>> : x \in RareItems}

\* JSON documents that are not arrays
NonArrays == {Null, Num(5), Str(""), Str("abc"), Obj(<<>>), Q1,
              Obj(<< <<"abc", Num(1)>> >>),
              Obj(<< <<"questionoptionscorrect_answer", Num(1)>> >>)}

Garbage == [json |-> FALSE, value |-> Null]
JsonText(value) == [json |-> TRUE, value |-> value]

\* The texts the capability answers a quiz prompt with
QuizTexts == {Garbage} \cup {JsonText(List(a)) : a \in Arrays}
             \cup {JsonText(x) : x \in NonArrays}

Message(content) == [shape |-> "message", content |-> content]
Failure == [shape |-> "raise", exc |-> "APIError"]
InitFailure == [shape |-> "raise", exc |-> "InitError"]

TutorContents == {Null, Str(""), Str("F = ma")}

\* What a call of the capability may do
LlmOutcomes(prompt) ==
    IF prompt.kind = "quiz"
    THEN {Failure} \cup {Message(text) : text \in QuizTexts}
         \cup {[shape |-> "llmresult", generations |-> <<>>]}
    ELSE {Failure} \cup {Message(c) : c \in TutorContents}
         \cup {[shape |-> "llmresult", generations |-> g] :
                 g \in {<<>>, << <<>> >>} \cup {<< <<[text |-> c]>> >> : c \in TutorContents}}
         \cup {[shape |-> "list", items |-> i] :
                 i \in {<<>>, <<[shape |-> "other"]>>}
                       \cup {<<Message(c)>> : c \in TutorContents}}
         \cup {[shape |-> "other"]}

\* The question counts a client sends
NumInputs == (MinQuestions - 2)..(MinQuestions + MaxExtra)
             \cup {DefaultQuestions, MaxQuestions, MaxQuestions + 1}

(***************************************************************************)
(* main.py: the API, one request at a time (requests share no state).      *)
(***************************************************************************)
VARIABLES
    pc,            \* "idle", "invoke" (about to call the capability),
                   \* "respond" (the capability has answered), "done"
    request,       \* the request being served
    llm_calls,     \* the prompts sent to the capability for this request
    llm,           \* what get_llm() and the call did
    result,        \* what generate_quiz / generate_tutoring_response did
    http,          \* the HTTP response
    document,      \* browser: the rendered quiz document
    className,     \* browser: class names of each option element
    display,       \* browser: style.display of each answer panel
    selections     \* browser: the options selected so far, in order

vars == <<pc, request, llm_calls, llm, result, http,
          document, className, display, selections>>
browser == <<document, className, display, selections>>
server == <<pc, request, llm_calls, llm, result, http>>

None == [kind |-> "none"]

Init ==
    /\ pc = "idle"
    /\ request = None
    /\ llm_calls = <<>>
    /\ llm = None
    /\ result = None
    /\ http = None
    /\ document = <<>>
    /\ className = <<>>
    /\ display = <<>>
    /\ selections = <<>>

Accept(req) ==
    /\ pc = "idle"
    /\ pc' = "invoke"
    /\ request' = req
    /\ UNCHANGED <<llm_calls, llm, result, http, browser>>

\* POST /quiz: QuizRequest rejects a num_questions outside ge=1, le=10
PostQuiz(subject, level, num_questions, reveal_format) ==
    IF num_questions >= MinQuestions /\ num_questions <= MaxQuestions
    THEN Accept([endpoint |-> "/quiz", subject |-> subject, level |-> level,
                 num_questions |-> num_questions, reveal_format |-> reveal_format])
    ELSE /\ pc = "idle"
         /\ pc' = "done"
         /\ request' = [endpoint |-> "/quiz", subject |-> subject, level |-> level,
                        num_questions |-> num_questions,
                        reveal_format |-> reveal_format]
         /\ http' = [status |-> 422]
         /\ UNCHANGED <<llm_calls, llm, result, browser>>

\* GET /quiz-html/{subject}/{level}/{num_questions}: num_questions: int
GetQuizHtml(subject, level, num_questions) ==
    Accept([endpoint |-> "/quiz-html", subject |-> subject, level |-> level,
            num_questions |-> num_questions, reveal_format |-> TRUE])

\* POST /tutor
PostTutor(subject, level, learning_style) ==
    Accept([endpoint |-> "/tutor", subject |-> subject, level |-> level,
            question |-> "Explain Newton's Second Law of Motion.",
            learning_style |-> learning_style, background |-> "Unknown",
            language |-> "English"])

\* GET /health
HealthCheck ==
    /\ pc = "idle"
    /\ pc' = "done"
    /\ request' = [endpoint |-> "/health"]
    /\ http' = [status |-> 200, body |-> [status |-> "healthy"]]
    /\ UNCHANGED <<llm_calls, llm, result, browser>>

Prompt(req) ==
    IF req.endpoint = "/tutor"
    THEN _create_tutoring_prompt(req.subject, req.level, req.question,
                                 req.learning_style, req.background, req.language)
    ELSE _create_quiz_prompt(req.subject, req.level, req.num_questions)

\* get_llm() raises: the capability is never called
GetLlmFails ==
    /\ pc = "invoke"
    /\ pc' = "respond"
    /\ llm' = InitFailure
    /\ UNCHANGED <<request, llm_calls, result, http, browser>>

\* InvokeLlm calling the capability again after a failure, up to 3 times
InvokeLlm_Retry ==
    /\ pc = "invoke"
    /\ \E outcome \in LlmOutcomes(Prompt(request)) :
          /\ llm' = outcome
          /\ pc' = IF outcome = Failure /\ Len(llm_calls) < 2
                   THEN "invoke" ELSE "respond"
    /\ llm_calls' = Append(llm_calls, Prompt(request))
    /\ UNCHANGED <<request, result, http, browser>>

\* llm([HumanMessage(content=prompt)]): the one call of the capability
InvokeLlm ==
    /\ pc = "invoke"
    /\ \E outcome \in LlmOutcomes(Prompt(request)) : llm' = outcome
    /\ llm_calls' = Append(llm_calls, Prompt(request))
    /\ pc' = "respond"
    /\ UNCHANGED <<request, result, http, browser>>

\* generate_quiz_api, from the return of the capability on
RespondQuiz ==
    /\ pc = "respond"
    /\ request.endpoint = "/quiz"
    /\ LET quiz_result == generate_quiz(request.subject, request.level,
                                        request.num_questions,
                                        request.reveal_format, llm)
       IN  /\ result' = quiz_result
           /\ http' = IF ~ quiz_result.ok THEN [status |-> 500]
                      ELSE IF request.reveal_format
                      THEN [status |-> 200,
                            body |-> [quiz |-> quiz_result.val.quiz_data,
                                      formatted_quiz |-> quiz_result.val.formatted_quiz]]
                      ELSE [status |-> 200,
                            body |-> [quiz |-> quiz_result.val.quiz_data]]
    /\ pc' = "done"
    /\ UNCHANGED <<request, llm_calls, llm, browser>>

\* get_quiz_html, from the return of the capability on
RespondQuizHtml ==
    /\ pc = "respond"
    /\ request.endpoint = "/quiz-html"
    /\ LET quiz_result == generate_quiz(request.subject, request.level,
                                        request.num_questions, TRUE, llm)
       IN  /\ result' = quiz_result
           /\ http' = IF ~ quiz_result.ok THEN [status |-> 500]
                      ELSE [status |-> 200, body |-> quiz_result.val.formatted_quiz]
    /\ pc' = "done"
    /\ UNCHANGED <<request, llm_calls, llm, browser>>

\* get_tutoring_response, from the return of the capability on
RespondTutor ==
    /\ pc = "respond"
    /\ request.endpoint = "/tutor"
    /\ LET explanation == generate_tutoring_response(
                              request.subject, request.level, request.question,
                              request.learning_style, request.background,
                              request.language, llm)
       IN  /\ result' = explanation
           /\ http' = IF ~ explanation.ok THEN [status |-> 500]
                      ELSE [status |-> 200, body |-> [response |-> explanation.val]]
    /\ pc' = "done"
    /\ UNCHANGED <<request, llm_calls, llm, browser>>

\* The response is sent and the request's state is dropped
Finish ==
    /\ pc = "done"
    /\ pc' = "idle"
    /\ request' = None
    /\ llm_calls' = <<>>
    /\ llm' = None
    /\ result' = None
    /\ http' = None
    /\ UNCHANGED browser

Next ==
    \/ \E subject \in Subjects, level \in Levels, num_questions \in NumInputs,
          reveal_format \in BOOLEAN :
            PostQuiz(subject, level, num_questions, reveal_format)
    \/ \E subject \in Subjects, level \in Levels, num_questions \in NumInputs :
            GetQuizHtml(subject, level, num_questions)
    \/ \E subject \in Subjects, level \in Levels, learning_style \in LearningStyles :
            PostTutor(subject, level, learning_style)
    \/ HealthCheck
    \/ GetLlmFails
    \/ InvokeLlm
    \/ RespondQuiz
    \/ RespondQuizHtml
    \/ RespondTutor
    \/ Finish

Spec == Init /\ [][Next]_vars

(***************************************************************************)
(* The script of the rendered document, run by the browser.                *)
(***************************************************************************)
\* two correct options: the same text offered twice
Q6 == Obj(<< <<"question", Str("Pick A")>>,
             <<"options", List(<<Str("A"), Str("A"), Str("B"), Str("C")>>)>>,
             <<"correct_answer", Str("A")>> >>)

ShownItems == {Q2, Q6}

\* The answers of the capability behind the documents the browser is given
ShownTexts == {Garbage}
              \cup {JsonText(List(a)) :
                      a \in UNION {[1..k -> ShownItems] : k \in 0..MaxShown}}

\* document.getElementById(id): the first element carrying the id, or 0
GetElementById(doc, id) ==
    IF \E i \in 1..Len(doc) : doc[i].answer_id = id
    THEN CHOOSE i \in 1..Len(doc) :
            /\ doc[i].answer_id = id
            /\ \A k \in 1..(i - 1) : doc[k].answer_id # id
    ELSE 0

\* revealAnswer looking up "answer-1" whatever the question
revealAnswer_First(questionNum) ==
    LET answerDiv == GetElementById(document, "answer-1")
    IN  IF answerDiv = 0 THEN display
        ELSE [display EXCEPT ![answerDiv] = "block"]

\* revealAnswer(questionNum): the display values after the call
revealAnswer(questionNum) ==
    LET answerDiv == GetElementById(document, "answer-" \o ToString(questionNum))
    IN  IF answerDiv = 0 THEN display
        ELSE [display EXCEPT ![answerDiv] = "block"]

\* handleAnswerSelection(isCorrect, selectedOption, questionNum), where
\* selectedOption is the j-th option element of the i-th card
handleAnswerSelection(isCorrect, i, j, questionNum) ==
    IF isCorrect
    THEN /\ className' = [className EXCEPT ![i][j] = @ \o " selected-correct"]
         /\ display' = display
    ELSE /\ className' = [className EXCEPT ![i][j] = @ \o " selected-incorrect"]
         /\ display' = revealAnswer(questionNum)

\* The user clicks the j-th option of the i-th question: its onclick runs
Click(i, j) ==
    /\ Len(selections) < MaxClicks
    /\ i \in 1..Len(document)
    /\ j \in 1..Len(document[i].options)
    /\ handleAnswerSelection(document[i].options[j].is_correct = "true", i, j,
                             document[i].options[j].questionNum)
    /\ selections' = Append(selections, <<i, j>>)
    /\ UNCHANGED <<server, document>>

\* A served GET /quiz-html request whose body the browser has loaded
InitBrowser ==
    /\ pc = "done"
    /\ \E text \in ShownTexts :
          /\ request = [endpoint |-> "/quiz-html", subject |-> "Algebra",
                        level |-> "Beginner", num_questions |-> MaxShown,
                        reveal_format |-> TRUE]
          /\ llm = Message(text)
    /\ llm_calls = <<Prompt(request)>>
    /\ result = generate_quiz(request.subject, request.level,
                              request.num_questions, TRUE, llm)
    /\ http = [status |-> 200, body |-> result.val.formatted_quiz]
    /\ document = http.body
    /\ className = [i \in 1..Len(document) |->
                      [j \in 1..Len(document[i].options) |-> "option"]]
    /\ display = [i \in 1..Len(document) |-> "none"]
    /\ selections = <<>>

NextBrowser == \E i \in 1..MaxShown, j \in 1..NumOptions : Click(i, j)

SpecBrowser == InitBrowser /\ [][NextBrowser]_vars

(***************************************************************************)
(* Properties.                                                             *)
(***************************************************************************)
\* A quiz request has been through generate_quiz
QuizServed ==
    /\ pc = "done"
    /\ request.endpoint \in {"/quiz", "/quiz-html"}
    /\ result # None

\* The capability returned a text
GotText == llm.shape = "message"

\* The text is a JSON array
GotArray == GotText /\ llm.content.json /\ llm.content.value.t = "list"

InRange(n) == n >= MinQuestions /\ n <= MaxQuestions

\* The schema of a question: the three fields, exactly 4 options, the
\* correct answer among them
WellFormed(q) ==
    /\ q.t = "obj"
    /\ \A k \in {"question", "options", "correct_answer"} : HasKey(q.v, k)
    /\ Get(q.v, "options").t = "list"
    /\ Len(Get(q.v, "options").v) = 4
    /\ \E j \in 1..4 : Get(q.v, "options").v[j] = Get(q.v, "correct_answer")

NonEmptyText(x) == x.t = "str" /\ Len(x.v) > 0

\* The i-th placeholder question for a subject
IsPlaceholder(q, subject, i) ==
    /\ q.t = "obj"
    /\ Len(q.v) = 4
    /\ \A k \in {"question", "options", "correct_answer", "explanation"} : HasKey(q.v, k)
    /\ Get(q.v, "question") = Str("Sample " \o subject \o " question " \o ToString(i))
    /\ Get(q.v, "options") =
          List(<<Str("Option A"), Str("Option B"), Str("Option C"), Str("Option D")>>)
    /\ Get(q.v, "correct_answer") = Str("Option A")
    /\ Get(q.v, "explanation") = Str("This is a fallback explanation.")

\* The placeholder questions 1..n and nothing else
IsFallbackQuiz(quiz_data, subject, n) ==
    /\ quiz_data.t = "list"
    /\ DOMAIN quiz_data.v = 1..n
    /\ \A i \in 1..n : IsPlaceholder(quiz_data.v[i], subject, i)

ModelsOwnExplanation(quiz_data, i) ==
    /\ GotArray
    /\ i <= Len(llm.content.value.v)
    /\ llm.content.value.v[i].t = "obj"
    /\ HasKey(llm.content.value.v[i].v, "explanation")
    /\ Get(llm.content.value.v[i].v, "explanation")
          = Get(quiz_data.v[i].v, "explanation")

C2_TextNeverRaises ==
    (QuizServed /\ GotText) => (result.ok /\ http.status = 200)

\* Claim C3: when the text is not valid JSON, generate_quiz returns without
\* raising the fallback quiz, that is the placeholder questions
\* i = 1..numQuestions in order and nothing else, and the capability was
\* called once.
C3_InvalidJsonFallsBack ==
    (QuizServed /\ GotText /\ ~ llm.content.json) =>
        /\ result.ok
        /\ IsFallbackQuiz(result.val.quiz_data, request.subject, request.num_questions)
        /\ Len(llm_calls) = 1

\* C3: three placeholder questions returned for an unparseable text
C3_Witness ==
    /\ QuizServed /\ GotText /\ ~ llm.content.json
    /\ request.num_questions = 3
    /\ result.ok
    /\ Len(result.val.quiz_data.v) = 3
    /\ Get(result.val.quiz_data.v[3].v, "question") = Str("Sample Physics question 3")

\* Claim C4 as stated: when any item of the model's array, at any index,
\* breaks the schema, the returned quiz is the fallback quiz of numQuestions
\* placeholder questions and holds none of the model's items.
C4_AllOrNothing ==
    (QuizServed /\ GotArray
       /\ \E i \in 1..Len(llm.content.value.v) : ~ WellFormed(llm.content.value.v[i])) =>
        /\ result.ok
        /\ IsFallbackQuiz(result.val.quiz_data, request.subject, request.num_questions)
        /\ \A i \in 1..Len(result.val.quiz_data.v), j \in 1..Len(llm.content.value.v) :
              result.val.quiz_data.v[i] # llm.content.value.v[j]

\* Claim C5 as stated: a quiz request whose question count lies outside
\* 1..10 is rejected at the API: the pipeline is not entered and the
\* capability is not called.
C5_CountInRange ==
    (pc # "idle" /\ request.endpoint \in {"/quiz", "/quiz-html"}
       /\ ~ InRange(request.num_questions)) =>
        /\ pc = "done"
        /\ http.status = 422
        /\ llm_calls = <<>>
        /\ result = None

\* The model's item and the returned question agree on every field the
\* model supplied
SameQuestion(item, q) ==
    /\ q.t = "obj"
    /\ \A k \in 1..Len(item.v) :
          HasKey(q.v, item.v[k][1]) /\ Get(q.v, item.v[k][1]) = item.v[k][2]

\* Claim C6 as stated: when the model's array of k items passes validation,
\* the returned quiz is the first min(k, numQuestions) items of the array,
\* in order.
C6_Prefix ==
    (QuizServed /\ GotArray
       /\ \A i \in 1..Len(llm.content.value.v) : WellFormed(llm.content.value.v[i])) =>
        /\ result.ok
        /\ result.val.quiz_data.t = "list"
        /\ DOMAIN result.val.quiz_data.v
              = 1..Min(Len(llm.content.value.v), request.num_questions)
        /\ \A i \in DOMAIN result.val.quiz_data.v :
              SameQuestion(llm.content.value.v[i], result.val.quiz_data.v[i])

\* Claim C7: in a validated batch, the i-th returned question is the i-th
\* item of the model with question, options and correct_answer unchanged;
\* its explanation is the model's when the item carried one, and "The
\* correct answer is {correct_answer}." from its own correct_answer when it
\* did not; no other field is added.  The Algebra example returns two
\* questions explained "The correct answer is 4." and "Subtract 1.".
C7_Backfill ==
    (QuizServed /\ GotArray
       /\ \A i \in 1..Len(llm.content.value.v) : WellFormed(llm.content.value.v[i])) =>
        /\ result.ok
        /\ Len(result.val.quiz_data.v) <= Len(llm.content.value.v)
        /\ \A i \in 1..Len(result.val.quiz_data.v) :
              LET item == llm.content.value.v[i]
                  q == result.val.quiz_data.v[i]
              IN  /\ SameQuestion(item, q)
                  /\ HasKey(q.v, "explanation")
                  /\ {q.v[k][1] : k \in 1..Len(q.v)}
                        = {item.v[k][1] : k \in 1..Len(item.v)} \cup {"explanation"}
                  /\ Len(q.v) = Cardinality({q.v[k][1] : k \in 1..Len(q.v)})
                  /\ ~ HasKey(item.v, "explanation") =>
                        Get(q.v, "explanation")
                          = Str("The correct answer is "
                                \o PyStr(Get(item.v, "correct_answer")) \o ".")
        /\ (llm.content.value.v = <<Q1, Q2>> /\ request.num_questions = 2) =>
              /\ Len(result.val.quiz_data.v) = 2
              /\ Get(result.val.quiz_data.v[1].v, "explanation")
                    = Str("The correct answer is 4.")
              /\ Get(result.val.quiz_data.v[2].v, "explanation") = Str("Subtract 1.")
        /\ (llm.content.value.v = <<Q4>> /\ request.num_questions = 1) =>
              Get(result.val.quiz_data.v[1].v, "explanation")
                 = Str("The correct answer is 2.")

\* C7: the Algebra example, served
C7_Witness ==
    /\ QuizServed /\ result.ok
    /\ request.subject = "Algebra" /\ request.num_questions = 2
    /\ llm = Message(JsonText(List(<<Q1, Q2>>)))
    /\ Get(result.val.quiz_data.v[1].v, "explanation") = Str("The correct answer is 4.")
    /\ Get(result.val.quiz_data.v[2].v, "explanation") = Str("Subtract 1.")

\* Claim C8: a request, tutoring or quiz, on any endpoint, calls the
\* capability at most once: never again after a failure, a parse failure or
\* a validation failure; and once the call has returned, no step of the
\* request makes another.
C8_AtMostOneCall ==
    /\ [](Len(llm_calls) <= 1)
    /\ [][(pc \in {"respond", "done"} /\ pc' # "idle") => llm_calls' = llm_calls]_vars

\* C8: the capability failed, the request ended in a 500 and one call was made
C8_Witness ==
    /\ pc = "done"
    /\ llm = Failure
    /\ http.status = 500
    /\ Len(llm_calls) = 1

\* The quiz behind the document
Shown(i) == result.val.quiz_data.v[i].v

IsRight(i, j) == Get(Shown(i), "options").v[j] = Get(Shown(i), "correct_answer")

Selected(i, j) == \E k \in 1..Len(selections) : selections[k] = <<i, j>>

HasClass(name, class) == IsSubstring(" " \o class \o " ", " " \o name \o " ")

\* Claim C9: after any selections, in any order: an option is marked correct
\* exactly when it was selected and equals its question's correct_answer,
\* marked incorrect exactly when it was selected and does not; the
\* explanation panel of question i is visible exactly when some option of
\* question i other than the correct answer was selected; and a selection
\* in another question changes neither the marks nor the panel of question i.
C9_Selections ==
    /\ [](\A i \in 1..Len(document) :
            /\ display[i] = "block" <=>
                  \E j \in 1..Len(className[i]) : Selected(i, j) /\ ~ IsRight(i, j)
            /\ display[i] \in {"none", "block"}
            /\ \A j \in 1..Len(className[i]) :
                  /\ HasClass(className[i][j], "option")
                  /\ HasClass(className[i][j], "selected-correct")
                        <=> (Selected(i, j) /\ IsRight(i, j))
                  /\ HasClass(className[i][j], "selected-incorrect")
                        <=> (Selected(i, j) /\ ~ IsRight(i, j)))
    /\ [][\A i \in 1..Len(document) :
            (selections' # selections /\ selections'[Len(selections')][1] # i) =>
                (className'[i] = className[i] /\ display'[i] = display[i])]_vars

\* C9: the right option of question 1 and a wrong option of question 2 were
\* selected: only the panel of question 2 shows
C9_Witness ==
    /\ Len(document) = 2
    /\ \E j \in 1..4 : Selected(1, j) /\ IsRight(1, j)
    /\ \E j \in 1..4 : Selected(2, j) /\ ~ IsRight(2, j)
    /\ \A j \in 1..4 : Selected(1, j) => IsRight(1, j)
    /\ display = <<"none", "block">>

\* The texts (or None) the response carries in one of the three known shapes
Carried(response) ==
    IF response.shape = "message" THEN {response.content}
    ELSE IF response.shape = "llmresult"
    THEN IF Len(response.generations) > 0 /\ Len(response.generations[1]) > 0
         THEN {response.generations[1][1].text} ELSE {}
    ELSE IF response.shape = "list"
    THEN IF Len(response.items) > 0 /\ response.items[1].shape = "message"
         THEN {response.items[1].content} ELSE {}
    ELSE {}

StyleSuffix(learning_style) ==
    IF learning_style = "Visual" THEN VisualSuffix
    ELSE IF learning_style = "Hands-on" THEN HandsOnSuffix
    ELSE ""

\* Claim C10: a tutoring request fails, and POST /tutor answers 500, exactly
\* when the capability raised or its response carries no non-empty text in a
\* known shape; otherwise it succeeds with that text (followed by the tip of
\* the learning style), which is never empty.
C10_TutorFailure ==
    (pc = "done" /\ request.endpoint = "/tutor") =>
        LET texts == {c \in Carried(llm) : NonEmptyText(c)}
        IN  IF texts = {}
            THEN ~ result.ok /\ http.status = 500
            ELSE /\ result.ok
                 /\ \E c \in texts :
                       result.val = c.v \o StyleSuffix(request.learning_style)
                 /\ Len(result.val) > 0
                 /\ http = [status |-> 200, body |-> [response |-> result.val]]

\* C10: the capability answered with an empty text and POST /tutor said 500
C10_Witness ==
    /\ pc = "done" /\ request.endpoint = "/tutor"
    /\ llm = Message(Str(""))
    /\ ~ result.ok
    /\ http.status = 500
====
